---- MODULE Spec2Model ----
(***************************************************************************)
(* Model of the realtime_asl repository.                                   *)
(*                                                                         *)
(*  - the temporal recogniser of src/camera.py (Video.get_frame) and of    *)
(*    the script src/detection.py (the same loop body);                    *)
(*  - the camera manager of src/backend/camera_manager.py with its capture *)
(*    thread, its frame lock and its callers in src/backend/main.py.       *)
(*                                                                         *)
(* Confidences and thresholds are percentages (0.8 is 80).  A feature      *)
(* vector is identified by its arrival stamp within the run.  A label is   *)
(* the argmax index into `actions`.                                        *)
(***************************************************************************)
EXTENDS Integers, Sequences, FiniteSets, TLC

VARIABLES
    sequence,       \* Video.sequence: the sliding window of feature vectors
    predictions,    \* Video.predictions: the raw prediction history
    sentence,       \* Video.sentence: the committed labels
    threshold,      \* Video.threshold, in percent
    zoom_factor,    \* Video.zoom_factor, in percent
    appended,       \* ghost: feature vectors appended since the last start()
    cycle,          \* ghost: what the last get_frame call did
    stub,           \* the classifier stub: [label, left] (left: predictions
                    \*   before its output may change)
    video_capture,  \* CameraManager.video_capture: 0 (None) or a handle
    latest_frame,   \* CameraManager.latest_frame: 0 (None) or a frame
    camera_running, \* CameraManager.camera_running
    camera_thread,  \* CameraManager.camera_thread: 0 (None) or a thread
    frame_lock,     \* CameraManager.frame_lock: <<>> (free) or its holder
    handle,         \* the state of every cv2.VideoCapture created
    tpc,            \* the position of every capture thread
    tframe,         \* the frame every capture thread has in flight (0 when
                    \*   its iteration has ended: the next read replaces it)
    reads,          \* frames the device has delivered
    cpc,            \* the position of every caller
    centry,         \* ghost: the manager's fields when the call was entered
    calls,          \* ghost: the last start_camera / stop_camera calls
    stored,         \* ghost: the frames stored by capture threads, in order
    cgot,           \* ghost: what each caller's get_latest_frame returned
    tlog,           \* ghost: what every capture thread's loop has done
    vop,            \* ghost: the operation on the Video object that took
                    \*   the last step
    cap,            \* Video.cap: the state of the Video's capture device
    wpc,            \* the position of every caller inside a Video setter
    current_settings,   \* main.py: current_settings
    current_detections, \* main.py: current_detections, 0 ([]) or the frame
                        \*   whose detections it holds
    http,           \* the last start_stream response every client received
    reply,          \* ghost: the last answer to a settings write
    accepted,       \* ghost: the arguments of the last accepted writes
    frame_processor, \* CameraManager.frame_processor is set (main.py line 57)
    zframe,         \* detector.py: the frame handed to apply_zoom
    zfactor,        \* detector.py: the zoom factor handed to apply_zoom
    zoomed,         \* detector.py: what the applications of apply_zoom
                    \*   returned, in order
    vzoomed         \* camera.py: what the zoom step of Video.get_frame
                    \*   made of zframe with zfactor (<<>> before it ran)

videoVars == <<sequence, predictions, sentence, threshold, zoom_factor,
               appended, cycle, stub, vop, cap>>

camVars == <<video_capture, latest_frame, camera_running, camera_thread,
             frame_lock, handle, tpc, tframe, reads, cpc, centry, calls,
             stored, cgot, tlog>>

apiVars == <<wpc, current_settings, current_detections, http, reply,
             accepted, frame_processor>>

detVars == <<zframe, zfactor, zoomed, vzoomed>>

vars == <<videoVars, camVars, apiVars, detVars>>

-----------------------------------------------------------------------------
(* Program constants *)

\* sequence[-30:] and len(sequence) == 30
WindowLen == 30
\* predictions[-10:]
HistoryLen == 10
\* len(sentence) > 5 and sentence[-5:]
SentenceCap == 5
\* self.threshold = 0.8
DefaultThreshold == 80
\* self.zoom_factor = 1.0
DefaultZoom == 100
\* threshold = 0.5 in the script
ScriptThreshold == 50

\* DEFAULT_CONFIDENCE_THRESHOLD = 0.5 (config.py)
DEFAULT_CONFIDENCE_THRESHOLD == 50
\* DEFAULT_ZOOM_FACTOR = 1.0 (config.py)
DEFAULT_ZOOM_FACTOR == 100

\* actions = np.array(['hello', 'thanks', 'iloveyou'])
actions == <<"hello", "thanks", "iloveyou">>

\* the argmax indices of the classifier's output
Labels == 0 .. (Len(actions) - 1)

-----------------------------------------------------------------------------
(* Bounds of the model *)

\* successful get_frame calls per run, free classifier
MaxFrames == 34
\* successful get_frame calls per run, classifier holding its output
MaxFramesHold == 81
\* successful get_frame calls per run, constant classifier
MaxFramesConst == 40
\* predictions for which the holding classifier keeps one label
Hold == 10
\* the confidence the constant classifier reports, in percent
StubConfidence == 90

\* callers of the camera manager
NumCallers == 3
\* capture threads created
MaxThreads == 2
\* cv2.VideoCapture objects created
MaxHandles == 2
\* frames the device delivers
MaxReads == 2
\* consecutive failed reads that are counted
MaxFails == 2
\* frames stored with the flag cleared that are counted
MaxLate == 2
\* clients that write the settings concurrently
NumClients == 2
\* successful get_frame calls per run, beside the other Video operations
MaxFramesVideo == 30
\* feature vectors the streaming thread appends while predictions are asked
MaxFramesPredict == 32
\* the largest height and width of a frame handed to apply_zoom
MaxDim == 4
\* the largest numerator and denominator of a zoom factor
MaxZoomTerm == 5

\* the confidences res[argmax] the classifier reports, in percent
Confs == {50, 80, 90}

-----------------------------------------------------------------------------
(* Pure helpers *)

Range(s) == {s[i] : i \in 1 .. Len(s)}

\* Python s[-k:]
LastN(s, k) == IF Len(s) <= k THEN s ELSE SubSeq(s, Len(s) - k + 1, Len(s))

Last(s) == s[Len(s)]

Min2(a, b) == IF a <= b THEN a ELSE b

SetMin(S) == CHOOSE x \in S : \A y \in S : x <= y

\* np.unique(s): the sorted distinct values of s
RECURSIVE SortedSeq(_)
SortedSeq(S) == IF S = {} THEN <<>>
                ELSE <<SetMin(S)>> \o SortedSeq(S \ {SetMin(S)})

np_unique(s) == SortedSeq(Range(s))

\* actions[np.argmax(res)]
ActionName(label) == actions[label + 1]

-----------------------------------------------------------------------------
(* The recogniser: Video.get_frame, lines 206-220 *)

AppendWindowTumbling(seq, keypoints) ==
    IF Len(seq) >= WindowLen THEN <<keypoints>> ELSE Append(seq, keypoints)

\* self.sequence.append(keypoints); self.sequence = self.sequence[-30:]
AppendWindow(seq, keypoints) == LastN(Append(seq, keypoints), WindowLen)

WindowFullOnce(seq) == Len(seq) = WindowLen /\ predictions = <<>>

\* if len(self.sequence) == 30
WindowFull(seq) == Len(seq) = WindowLen

\* np.unique(self.predictions[-10:])[0] == np.argmax(res)
Stable(preds, label) == np_unique(LastN(preds, HistoryLen))[1] = label

\* res[np.argmax(res)] > self.threshold
Confident(conf, thr) == conf > thr

NotRepeatedNever(sent, label) == TRUE

\* len(self.sentence) == 0 or actions[np.argmax(res)] != self.sentence[-1]
NotRepeated(sent, label) == Len(sent) = 0 \/ ActionName(label) # Last(sent)

TruncateSentenceNever(sent) == sent

\* if len(self.sentence) > 5: self.sentence = self.sentence[-5:]
TruncateSentence(sent) ==
    IF Len(sent) > SentenceCap THEN LastN(sent, SentenceCap) ELSE sent

\* self.predictions.append(np.argmax(res))
AppendPrediction(preds, label) == Append(preds, label)

NoCycle == [ret |-> FALSE, ran |-> FALSE, label |-> 0, conf |-> 0,
            commit |-> FALSE, prev |-> <<>>, npred |-> 0]

\* the record of one operation on the Video object: its name, whether an
\* exception left it, whether its classifier call failed, whether it
\* created a cv2.VideoCapture, and what the generator that called it did
VideoOp(op, raised) ==
    [op |-> op, raised |-> raised, failed |-> FALSE, opened |-> FALSE,
     gen |-> "none"]

\* self.cap = cv2.VideoCapture(0), line 133
Started == [VideoOp("start", FALSE) EXCEPT !.opened = TRUE]

\* Video.__init__ calls self.start()
Constructed == Started

\* the results of get_frame: None (line 189) or the bytes of the JPEG
None == "None"
Jpeg == "jpeg"

\* gen() of app.py, lines 12-17: frame = camera.get_frame(), then
\* yield(b'...' + frame + b'...'); bytes + None raises TypeError, which
\* nothing in gen() catches, and the generator ends
gen(frame) == IF frame = None THEN "ended" ELSE "yield"

\* a get_frame call made by gen() that returned frame
Streamed(frame) == [VideoOp("get_frame", FALSE) EXCEPT !.gen = gen(frame)]

\* Video.get_frame from the assignment of the window on (lines 208-234):
\* seq1 is the window after the new feature vector was appended and the
\* last 30 were kept
predict_cycle(seq1, label, conf) ==
    /\ sequence' = seq1
    /\ vop' = Streamed(Jpeg)
    /\ UNCHANGED <<threshold, zoom_factor, cap>>
    /\ IF WindowFull(seq1)
       THEN LET preds1 == AppendPrediction(predictions, label)
                commit == /\ Stable(preds1, label)
                          /\ Confident(conf, threshold)
                          /\ NotRepeated(sentence, label)
                sent1 == IF commit
                         THEN Append(sentence, ActionName(label))
                         ELSE sentence
            IN /\ predictions' = preds1
               /\ sentence' = TruncateSentence(sent1)
               /\ cycle' = [ret |-> TRUE, ran |-> TRUE,
                            label |-> label, conf |-> conf,
                            commit |-> commit, prev |-> sentence,
                            npred |-> Len(predictions)]
       ELSE /\ UNCHANGED <<predictions, sentence>>
            /\ cycle' = [NoCycle EXCEPT !.ret = TRUE,
                                        !.prev = sentence,
                                        !.npred = Len(predictions)]

\* One call of Video.get_frame: ret is the device read's flag, label and
\* conf the classifier's argmax and its confidence (used when the window is
\* full).
get_frame(ret, label, conf) ==
    IF ~ret
    THEN /\ cycle' = [NoCycle EXCEPT !.prev = sentence,
                                     !.npred = Len(predictions)]
         /\ vop' = Streamed(None)
         /\ UNCHANGED <<sequence, predictions, sentence, threshold,
                        zoom_factor, appended, cap>>
    ELSE /\ appended' = appended + 1
         /\ predict_cycle(AppendWindow(sequence, appended + 1), label, conf)

KeptSentence == sentence

\* self.sentence = []
NewSentence == <<>>

\* Video.start(): a new capture and empty window, history and sentence; the
\* threshold and the zoom factor are set to their defaults.
start ==
    /\ cap' = "open"
    /\ sequence' = <<>>
    /\ predictions' = <<>>
    /\ sentence' = NewSentence
    /\ threshold' = DefaultThreshold
    /\ zoom_factor' = DefaultZoom
    /\ appended' = 0
    /\ cycle' = NoCycle
    /\ vop' = Started
    /\ UNCHANGED stub

\* One call of Video.get_frame in which model.predict (line 211) raises:
\* the feature vector was appended at lines 207-208, nothing around line 211
\* catches the exception, and it leaves get_frame.
get_frame_failed ==
    LET seq1 == AppendWindow(sequence, appended + 1)
    IN /\ WindowFull(seq1)
       /\ sequence' = seq1
       /\ appended' = appended + 1
       /\ cycle' = [NoCycle EXCEPT !.ret = TRUE, !.prev = sentence,
                                   !.npred = Len(predictions)]
       /\ vop' = [VideoOp("get_frame", TRUE) EXCEPT !.failed = TRUE,
                                                    !.gen = "ended"]
       /\ UNCHANGED <<predictions, sentence, threshold, zoom_factor, cap>>

\* Video.release(): self.cap.release(), then self.cap.destroyAllWindows(),
\* a method cv2.VideoCapture does not have (AttributeError)
release ==
    /\ cap' = "released"
    /\ vop' = VideoOp("release", TRUE)
    /\ UNCHANGED <<sequence, predictions, sentence, threshold, zoom_factor,
                   appended, cycle, stub>>

\* Video.get_predictions(): reads self.sequence and writes nothing
get_predictions ==
    /\ vop' = VideoOp("get_predictions", FALSE)
    /\ UNCHANGED <<sequence, predictions, sentence, threshold, zoom_factor,
                   appended, cycle, stub, cap>>

InitVideo ==
    /\ sequence = <<>>
    /\ predictions = <<>>
    /\ sentence = <<>>
    /\ threshold = DefaultThreshold
    /\ zoom_factor = DefaultZoom
    /\ appended = 0
    /\ cycle = NoCycle
    /\ vop = Constructed
    /\ cap = "open"

-----------------------------------------------------------------------------
(* The camera manager: src/backend/camera_manager.py *)

Callers == 1 .. NumCallers
Threads == 1 .. MaxThreads
Handles == 1 .. MaxHandles

\* the caller that starts and stops the camera when calls are sequential
Controller == 1
\* the callers that fetch the published frame
Readers == Callers \ {Controller}

Free == <<>>
AsCaller(c) == <<"caller", c>>
AsThread(t) == <<"thread", t>>

\* cv2.VideoCapture objects created so far, threads created so far
nHandles == Cardinality({h \in Handles : handle[h] # "none"})
nThreads == Cardinality({t \in Threads : tpc[t] # "unborn"})

\* callers inside start_camera that have not yet created their thread
Starting == {c \in Callers : cpc[c] \in {"sc_check", "sc_open", "sc_flag",
                                         "sc_thread"}}

Snapshot == [running |-> camera_running, capture |-> video_capture,
             frame |-> latest_frame, thread |-> camera_thread,
             handles |-> nHandles, threads |-> nThreads]

\* the manager's fields before any call
NoSnapshot == [running |-> FALSE, capture |-> 0, frame |-> 0, thread |-> 0,
               handles |-> 0, threads |-> 0]

\* the fields that differ between two snapshots
Changed(pre, post) == {f \in DOMAIN pre : pre[f] # post[f]}

\* the record of a finished call: what it returned, whether the camera was
\* running when it was entered and which fields differ at its return
CallRecord(op, value, pre, post) ==
    [op |-> op, ret |-> value, running |-> pre.running,
     changed |-> Changed(pre, post)]

\* a call returns: its record is kept with the two calls before it
Returned(c, op, value, post) ==
    /\ calls' = LastN(Append(calls, CallRecord(op, value, centry[c], post)), 3)
    /\ centry' = [centry EXCEPT ![c] = NoSnapshot]

\* no response received yet
NoResponse == [op |-> "none", status |-> 0, success |-> FALSE]

\* no settings write answered yet
NoReply == [client |-> 0, op |-> "none", arg |-> 0, status |-> 0,
            success |-> FALSE, changed |-> {}]

StreamStatusOk(success) == 200

\* the status of start_stream's answer (main.py lines 102-114): 200 with
\* the settings, or HTTPException(status_code=500) when start_camera
\* returned False
StreamStatus(success) == IF success THEN 200 ELSE 500

\* the responses `pending` with start_stream's answer to what start_camera
\* returned, when caller c came through start_stream
Answered(pending, c, success) ==
    IF pending[c].op = "start_stream" /\ pending[c].status = 0
    THEN [pending EXCEPT ![c] = [op |-> "start_stream",
                                 status |-> StreamStatus(success),
                                 success |-> success]]
    ELSE pending

StreamAnswer(c, success) == Answered(http, c, success)

\* the log of a capture thread's loop: the failed reads in a row since the
\* last iteration that read a frame, the failed reads that came before the
\* last frame stored, the frames stored since camera_running was last
\* cleared, and what raised in the last iteration; kept while `on`
NoLog == [on |-> FALSE, fails |-> 0, after |-> 0, late |-> 0, raised |-> "no",
          track |-> FALSE, written |-> {},
          used |-> [confidence_threshold |-> 0, zoom_factor |-> 0]]
\* a log that follows the settings instead: those written during the
\* iteration and those the frame processor used
Tracking == [NoLog EXCEPT !.track = TRUE]
Logging == [NoLog EXCEPT !.on = TRUE]

\* the logs with thread t's replaced by entry
Logged(t, entry) == IF tlog[t].on THEN [tlog EXCEPT ![t] = entry] ELSE tlog
Tracked(t, entry) == IF tlog[t].track THEN [tlog EXCEPT ![t] = entry] ELSE tlog

\* the variables of the request handlers that the camera manager's own
\* methods leave alone
handlerVars == <<wpc, current_settings, current_detections, reply, accepted,
                 frame_processor>>

InitManager ==
    /\ video_capture = 0
    /\ latest_frame = 0
    /\ camera_running = FALSE
    /\ camera_thread = 0
    /\ frame_lock = Free
    /\ handle = [h \in Handles |-> "none"]
    /\ tpc = [t \in Threads |-> "unborn"]
    /\ tframe = [t \in Threads |-> 0]
    /\ reads = 0
    /\ cpc = [c \in Callers |-> "idle"]
    /\ centry = [c \in Callers |-> NoSnapshot]
    /\ calls = <<>>
    /\ stored = <<>>
    /\ cgot = [c \in Callers |->
                  [n |-> 0, val |-> 0, locked |-> 0, last |-> 0, prev |-> 0,
                   held |-> 0]]

\* a CameraManager as constructed, its threads' loops not logged
InitCam == InitManager /\ tlog = [t \in Threads |-> NoLog]

\* a CameraManager as constructed, its threads' loops logged
InitLogged == InitManager /\ tlog = [t \in Threads |-> Logging]

InitTracked == InitManager /\ tlog = [t \in Threads |-> Tracking]

(* start_camera, lines 34-58 *)

AlreadyRunningNever == FALSE

\* if self.camera_running: (line 35)
AlreadyRunning == camera_running

\* start_camera is entered with the manager's fields as they are now:
\* if self.camera_running: return True
StartEntry(c, pending) ==
    /\ IF AlreadyRunning
       THEN /\ cpc' = [cpc EXCEPT ![c] = "idle"]
            /\ calls' = LastN(Append(calls, CallRecord("start", TRUE,
                                                       Snapshot, Snapshot)), 3)
            /\ UNCHANGED centry
       ELSE /\ cpc' = [cpc EXCEPT ![c] = "sc_open"]
            /\ centry' = [centry EXCEPT ![c] = Snapshot]
            /\ UNCHANGED calls
    /\ http' = IF AlreadyRunning THEN Answered(pending, c, TRUE) ELSE pending
    /\ UNCHANGED <<videoVars, handlerVars, detVars>>
    /\ UNCHANGED <<video_capture, latest_frame, camera_running, camera_thread,
                   frame_lock, handle, tpc, tframe, reads, stored, cgot, tlog>>

\* a caller calls start_camera (not through start_stream: it has no
\* answer of start_stream pending or left)
CallStartCamera(c) ==
    /\ cpc[c] = "idle"
    /\ nHandles + Cardinality(Starting) < MaxHandles
    /\ nThreads + Cardinality(Starting) < MaxThreads
    /\ StartEntry(c, [http EXCEPT ![c] = NoResponse])

\* start_stream calls start_camera (main.py line 102)
StartCheck(c) ==
    /\ cpc[c] = "sc_check"
    /\ StartEntry(c, http)

\* self.video_capture = cv2.VideoCapture(camera_index);
\* if not self.video_capture.isOpened(): return False
StartOpen(c) ==
    /\ cpc[c] = "sc_open"
    /\ LET h == nHandles + 1
       IN /\ video_capture' = h
          /\ \E opened \in BOOLEAN :
                IF opened
                THEN /\ handle' = [handle EXCEPT ![h] = "open"]
                     /\ cpc' = [cpc EXCEPT ![c] = "sc_flag"]
                     /\ UNCHANGED <<calls, centry, http>>
                ELSE /\ handle' = [handle EXCEPT ![h] = "failed"]
                     /\ cpc' = [cpc EXCEPT ![c] = "idle"]
                     /\ Returned(c, "start", FALSE,
                                 [Snapshot EXCEPT !.capture = h,
                                                  !.handles = h])
                     /\ http' = StreamAnswer(c, FALSE)
    /\ UNCHANGED <<videoVars, handlerVars, detVars>>
    /\ UNCHANGED <<latest_frame, camera_running, camera_thread, frame_lock,
                   tpc, tframe, reads, stored, cgot, tlog>>

\* self.camera_running = True
StartFlag(c) ==
    /\ cpc[c] = "sc_flag"
    /\ camera_running' = TRUE
    /\ cpc' = [cpc EXCEPT ![c] = "sc_thread"]
    /\ UNCHANGED <<videoVars, apiVars, detVars>>
    /\ UNCHANGED <<video_capture, latest_frame, camera_thread, frame_lock,
                   handle, tpc, tframe, reads, centry, calls, stored, cgot, tlog>>

\* self.camera_thread = threading.Thread(...); self.camera_thread.start();
\* return True
StartThread(c) ==
    /\ cpc[c] = "sc_thread"
    /\ LET t == nThreads + 1
       IN /\ camera_thread' = t
          /\ tpc' = [tpc EXCEPT ![t] = "top"]
          /\ Returned(c, "start", TRUE,
                      [Snapshot EXCEPT !.thread = t, !.threads = t])
    /\ cpc' = [cpc EXCEPT ![c] = "idle"]
    /\ http' = StreamAnswer(c, TRUE)
    /\ UNCHANGED <<videoVars, handlerVars, detVars>>
    /\ UNCHANGED <<video_capture, latest_frame, camera_running, frame_lock,
                   handle, tframe, reads, stored, cgot, tlog>>

(* start_stream, main.py lines 95-114 *)

\* a caller calls start_stream:
\* if camera_manager.is_running(): return {"message": "Stream already
\* running"}
CallStartStream(c) ==
    /\ cpc[c] = "idle"
    /\ nHandles + Cardinality(Starting) < MaxHandles
    /\ nThreads + Cardinality(Starting) < MaxThreads
    /\ cpc' = [cpc EXCEPT ![c] = IF camera_running THEN "idle"
                                 ELSE "sc_check"]
    /\ http' = [http EXCEPT ![c] =
                   [op |-> "start_stream",
                    status |-> IF camera_running THEN 200 ELSE 0,
                    success |-> camera_running]]
    /\ UNCHANGED <<videoVars, handlerVars, detVars>>
    /\ UNCHANGED <<video_capture, latest_frame, camera_running, camera_thread,
                   frame_lock, handle, tpc, tframe, reads, centry, calls,
                   stored, cgot, tlog>>

(* stop_camera, lines 67-94 *)

\* if not self.camera_running: (line 68)
NotRunning == ~camera_running

\* where stop_camera returns to: to stop_stream (main.py line 123) when
\* the caller came through it, or to the caller
StopReturnsTo(c) ==
    IF http[c].op = "stop_stream" /\ http[c].status = 0
    THEN "ss_clear"
    ELSE "idle"

\* stop_camera is entered: if not self.camera_running: return True
StopEntry(c) ==
    /\ IF NotRunning
       THEN /\ cpc' = [cpc EXCEPT ![c] = StopReturnsTo(c)]
            /\ calls' = LastN(Append(calls, CallRecord("stop", TRUE,
                                                       Snapshot, Snapshot)), 3)
            /\ UNCHANGED centry
       ELSE /\ cpc' = [cpc EXCEPT ![c] = "st_flag"]
            /\ centry' = [centry EXCEPT ![c] = Snapshot]
            /\ UNCHANGED calls
    /\ UNCHANGED <<videoVars, apiVars, detVars>>
    /\ UNCHANGED <<video_capture, latest_frame, camera_running, camera_thread,
                   frame_lock, handle, tpc, tframe, reads, stored, cgot, tlog>>

\* a caller calls stop_camera
CallStopCamera(c) ==
    /\ cpc[c] = "idle"
    /\ StopEntry(c)

\* stop_stream calls stop_camera (main.py line 123)
StopCheck(c) ==
    /\ cpc[c] = "ss_call"
    /\ StopEntry(c)

\* self.camera_running = False
StopFlag(c) ==
    /\ cpc[c] = "st_flag"
    /\ camera_running' = FALSE
    /\ cpc' = [cpc EXCEPT ![c] = "st_join"]
    /\ tlog' = [t \in Threads |-> [tlog[t] EXCEPT !.late = 0]]
    /\ UNCHANGED <<videoVars, apiVars, detVars>>
    /\ UNCHANGED <<video_capture, latest_frame, camera_thread, frame_lock,
                   handle, tpc, tframe, reads, centry, calls, stored, cgot>>

\* if self.camera_thread and self.camera_thread.is_alive():
\*     self.camera_thread.join(timeout=2.0)
\* The join returns when the thread has ended or when the timeout has
\* passed, whichever is first: with the thread alive it may return.
StopJoin(c) ==
    /\ cpc[c] = "st_join"
    /\ cpc' = [cpc EXCEPT ![c] = "st_release"]
    /\ UNCHANGED <<videoVars, apiVars, detVars>>
    /\ UNCHANGED <<video_capture, latest_frame, camera_running, camera_thread,
                   frame_lock, handle, tpc, tframe, reads, centry, calls,
                   stored, cgot, tlog>>

\* if self.video_capture: self.video_capture.release()
StopRelease(c) ==
    /\ cpc[c] = "st_release"
    /\ IF video_capture # 0
       THEN /\ handle' = [handle EXCEPT ![video_capture] = "released"]
            /\ cpc' = [cpc EXCEPT ![c] = "st_none"]
       ELSE /\ cpc' = [cpc EXCEPT ![c] = "st_lock"]
            /\ UNCHANGED handle
    /\ UNCHANGED <<videoVars, apiVars, detVars>>
    /\ UNCHANGED <<video_capture, latest_frame, camera_running, camera_thread,
                   frame_lock, tpc, tframe, reads, centry, calls, stored, cgot, tlog>>

\* self.video_capture = None
StopNone(c) ==
    /\ cpc[c] = "st_none"
    /\ video_capture' = 0
    /\ cpc' = [cpc EXCEPT ![c] = "st_lock"]
    /\ UNCHANGED <<videoVars, apiVars, detVars>>
    /\ UNCHANGED <<latest_frame, camera_running, camera_thread, frame_lock,
                   handle, tpc, tframe, reads, centry, calls, stored, cgot, tlog>>

\* with self.frame_lock: (line 86)
StopLock(c) ==
    /\ cpc[c] = "st_lock"
    /\ frame_lock = Free
    /\ frame_lock' = AsCaller(c)
    /\ cpc' = [cpc EXCEPT ![c] = "st_clear"]
    /\ UNCHANGED <<videoVars, apiVars, detVars>>
    /\ UNCHANGED <<video_capture, latest_frame, camera_running, camera_thread,
                   handle, tpc, tframe, reads, centry, calls, stored, cgot, tlog>>

\* self.latest_frame = None; the lock is released; return True
StopClear(c) ==
    /\ cpc[c] = "st_clear"
    /\ latest_frame' = 0
    /\ frame_lock' = Free
    /\ cpc' = [cpc EXCEPT ![c] = StopReturnsTo(c)]
    /\ Returned(c, "stop", TRUE, [Snapshot EXCEPT !.frame = 0])
    /\ UNCHANGED <<videoVars, apiVars, detVars>>
    /\ UNCHANGED <<video_capture, camera_running, camera_thread, handle, tpc,
                   tframe, reads, stored, cgot, tlog>>

(* stop_stream, main.py lines 116-136 *)

\* a caller calls stop_stream:
\* if not camera_manager.is_running(): return {"message": "Stream not
\* running"}; the answer's success tells "stopped" from "not running"
CallStopStream(c) ==
    /\ cpc[c] = "idle"
    /\ cpc' = [cpc EXCEPT ![c] = IF camera_running THEN "ss_call"
                                 ELSE "idle"]
    /\ http' = [http EXCEPT ![c] =
                   [op |-> "stop_stream",
                    status |-> IF camera_running THEN 0 ELSE 200,
                    success |-> FALSE]]
    /\ UNCHANGED <<videoVars, handlerVars, detVars>>
    /\ UNCHANGED <<video_capture, latest_frame, camera_running, camera_thread,
                   frame_lock, handle, tpc, tframe, reads, centry, calls,
                   stored, cgot, tlog>>

\* stop_camera returned True: current_detections = []; return {"message":
\* "YOLO ASL detection stream stopped"}
StopStreamClear(c) ==
    /\ cpc[c] = "ss_clear"
    /\ current_detections' = 0
    /\ http' = [http EXCEPT ![c] = [op |-> "stop_stream", status |-> 200,
                                    success |-> TRUE]]
    /\ cpc' = [cpc EXCEPT ![c] = "idle"]
    /\ UNCHANGED <<videoVars, detVars, wpc, current_settings, reply, accepted,
                   frame_processor>>
    /\ UNCHANGED <<video_capture, latest_frame, camera_running, camera_thread,
                   frame_lock, handle, tpc, tframe, reads, centry, calls,
                   stored, cgot, tlog>>

(* get_latest_frame, lines 96-104 *)

\* a caller enters get_latest_frame
CallGetLatestFrame(c) ==
    /\ cpc[c] = "idle"
    /\ cpc' = [cpc EXCEPT ![c] = "gl_lock"]
    /\ UNCHANGED <<videoVars, apiVars, detVars>>
    /\ UNCHANGED <<video_capture, latest_frame, camera_running, camera_thread,
                   frame_lock, handle, tpc, tframe, reads, centry, calls,
                   stored, cgot, tlog>>

\* with self.frame_lock: (line 103)
GetLock(c) ==
    /\ cpc[c] = "gl_lock"
    /\ frame_lock = Free
    /\ frame_lock' = AsCaller(c)
    /\ cgot' = [cgot EXCEPT ![c].held = latest_frame]
    /\ cpc' = [cpc EXCEPT ![c] = "gl_return"]
    /\ UNCHANGED <<videoVars, apiVars, detVars>>
    /\ UNCHANGED <<video_capture, latest_frame, camera_running, camera_thread,
                   handle, tpc, tframe, reads, centry, calls, stored, tlog>>

\* return self.latest_frame; the lock is released
GetReturn(c) ==
    /\ cpc[c] = "gl_return"
    /\ cgot' = [cgot EXCEPT ![c] = [n |-> Min2(cgot[c].n + 1, 2),
                                    val |-> latest_frame,
                                    locked |-> cgot[c].held,
                                    held |-> 0,
                                    last |-> IF stored = <<>> THEN 0
                                             ELSE Last(stored),
                                    prev |-> cgot[c].val]]
    /\ frame_lock' = Free
    /\ cpc' = [cpc EXCEPT ![c] = "idle"]
    /\ UNCHANGED <<videoVars, apiVars, detVars>>
    /\ UNCHANGED <<video_capture, latest_frame, camera_running, camera_thread,
                   handle, tpc, tframe, reads, centry, calls, stored, tlog>>

(* _capture_frames, lines 110-151 *)

LoopConditionAlways == TRUE

\* while self.camera_running: (line 117)
LoopCondition == camera_running

\* the loop tests its condition at the top of every iteration
CaptureTop(t) ==
    /\ tpc[t] = "top"
    /\ tpc' = [tpc EXCEPT ![t] = IF LoopCondition THEN "read" ELSE "done"]
    /\ tlog' = IF LoopCondition
               THEN Tracked(t, [tlog[t] EXCEPT !.written = {}])
               ELSE tlog
    /\ UNCHANGED <<videoVars, apiVars, detVars>>
    /\ UNCHANGED <<video_capture, latest_frame, camera_running, camera_thread,
                   frame_lock, handle, tframe, reads, cpc, centry, calls,
                   stored, cgot>>

ReadFailedBreak == "done"

\* if not ret: ...; time.sleep(0.1); continue (lines 119-122): the loop goes
\* back to its test
ReadFailedNext == "top"

\* ret, frame = self.video_capture.read(); if not ret: sleep, continue.
\* With video_capture None the call raises and the outer handler ends the
\* thread; a released or failing device reads nothing.
CaptureRead(t) ==
    /\ tpc[t] = "read"
    /\ IF video_capture = 0
       THEN /\ tpc' = [tpc EXCEPT ![t] = "done"]
            /\ UNCHANGED <<tframe, reads, tlog>>
       ELSE \E ret \in BOOLEAN :
               IF ret /\ handle[video_capture] = "open" /\ reads < MaxReads
               THEN /\ reads' = reads + 1
                    /\ tframe' = [tframe EXCEPT ![t] = reads + 1]
                    /\ tpc' = [tpc EXCEPT ![t] = "process"]
                    /\ tlog' = Logged(t, [tlog[t] EXCEPT !.raised = "no"])
               ELSE /\ ~ret
                    /\ tpc' = [tpc EXCEPT ![t] = ReadFailedNext]
                    /\ tlog' = Logged(t, [tlog[t] EXCEPT
                                             !.raised = "no",
                                             !.fails = Min2(@ + 1, MaxFails)])
                    /\ UNCHANGED <<tframe, reads>>
    /\ UNCHANGED <<videoVars, apiVars, detVars>>
    /\ UNCHANGED <<video_capture, latest_frame, camera_running, camera_thread,
                   frame_lock, handle, cpc, centry, calls, stored, cgot>>

InstalledSettings == [confidence_threshold |-> DEFAULT_CONFIDENCE_THRESHOLD,
                      zoom_factor |-> DEFAULT_ZOOM_FACTOR]

\* the arguments process_frame hands to detector.process_frame (main.py
\* lines 49-53): current_settings['confidence_threshold'] and
\* current_settings['zoom_factor'], read from the global at every call
ProcessorSettings == current_settings

\* if self.frame_processor: processed_frame = self.frame_processor(frame)
\* else: processed_frame = frame
\* The processor of main.py (lines 47-55) stores the detections of the frame
\* in current_detections: those the detector found, or [] when it found
\* none or when detector.process_frame caught an error of its own (lines
\* 198-200).  A processor that raises is caught by the inner handler, which
\* goes on to the next iteration.
CaptureProcess(t) ==
    /\ tpc[t] = "process"
    /\ IF frame_processor
       THEN \E raised \in BOOLEAN :
               IF raised
               THEN /\ tpc' = [tpc EXCEPT ![t] = "top"]
                    /\ tframe' = [tframe EXCEPT ![t] = 0]
                    /\ tlog' = Logged(t, [tlog[t] EXCEPT
                                             !.raised = "processor",
                                             !.fails = 0])
                    /\ UNCHANGED current_detections
               ELSE /\ tpc' = [tpc EXCEPT ![t] = "encode"]
                    /\ \E found \in {0, tframe[t]} :
                          current_detections' = found
                    /\ tlog' = Tracked(t, [tlog[t] EXCEPT
                                              !.used = ProcessorSettings])
                    /\ UNCHANGED tframe
       ELSE /\ tpc' = [tpc EXCEPT ![t] = "encode"]
            /\ UNCHANGED <<current_detections, tframe, tlog>>
    /\ UNCHANGED <<videoVars, detVars, wpc, current_settings, http, reply, accepted,
                   frame_processor>>
    /\ UNCHANGED <<video_capture, latest_frame, camera_running, camera_thread,
                   frame_lock, handle, reads, cpc, centry, calls, stored, cgot>>

\* _, buffer = cv2.imencode('.jpg', processed_frame, ...): when it raises the
\* inner handler goes on to the next iteration
CaptureEncode(t) ==
    /\ tpc[t] = "encode"
    /\ \E raised \in BOOLEAN :
          IF raised
          THEN /\ tpc' = [tpc EXCEPT ![t] = "top"]
               /\ tframe' = [tframe EXCEPT ![t] = 0]
               /\ tlog' = Logged(t, [tlog[t] EXCEPT !.raised = "encoder",
                                                    !.fails = 0])
          ELSE /\ tpc' = [tpc EXCEPT ![t] = "lock"]
               /\ UNCHANGED <<tframe, tlog>>
    /\ UNCHANGED <<videoVars, apiVars, detVars>>
    /\ UNCHANGED <<video_capture, latest_frame, camera_running, camera_thread,
                   frame_lock, handle, reads, cpc, centry, calls, stored, cgot>>

LockFreeAlways == TRUE

\* the frame lock can be taken
LockFree == frame_lock = Free

\* with self.frame_lock: (line 135)
CaptureLock(t) ==
    /\ tpc[t] = "lock"
    /\ LockFree
    /\ frame_lock' = AsThread(t)
    /\ tpc' = [tpc EXCEPT ![t] = "store"]
    /\ UNCHANGED <<videoVars, apiVars, detVars>>
    /\ UNCHANGED <<video_capture, latest_frame, camera_running, camera_thread,
                   handle, tframe, reads, cpc, centry, calls, stored, cgot, tlog>>

\* self.latest_frame = buffer.tobytes(); the lock is released
CaptureStore(t) ==
    /\ tpc[t] = "store"
    /\ latest_frame' = tframe[t]
    /\ stored' = Append(stored, tframe[t])
    /\ frame_lock' = Free
    /\ tpc' = [tpc EXCEPT ![t] = "top"]
    /\ tframe' = [tframe EXCEPT ![t] = 0]
    /\ tlog' = Logged(t, [tlog[t] EXCEPT
                             !.after = tlog[t].fails,
                             !.fails = 0,
                             !.late = IF camera_running THEN @
                                      ELSE Min2(@ + 1, MaxLate)])
    /\ UNCHANGED <<videoVars, apiVars, detVars>>
    /\ UNCHANGED <<video_capture, camera_running, camera_thread, handle,
                   reads, cpc, centry, calls, cgot>>

CaptureStep(t) ==
    \/ CaptureTop(t)
    \/ CaptureRead(t)
    \/ CaptureProcess(t)
    \/ CaptureEncode(t)
    \/ CaptureLock(t)
    \/ CaptureStore(t)

StartCameraStep(c) ==
    \/ StartOpen(c)
    \/ StartFlag(c)
    \/ StartThread(c)

StopCameraStep(c) ==
    \/ StopFlag(c)
    \/ StopJoin(c)
    \/ StopRelease(c)
    \/ StopNone(c)
    \/ StopLock(c)
    \/ StopClear(c)

-----------------------------------------------------------------------------
(* The settings: Video.set_threshold and Video.set_zoom (src/camera.py),   *)
(* their routes in src/app.py, and the handlers of src/backend/main.py     *)

\* float('nan'): a value of the float arguments that no comparison holds
\* for
NaN == 999999

\* a <= b on floats
FloatLe(a, b) == a # NaN /\ b # NaN /\ a <= b

\* a > b on floats
FloatGt(a, b) == a # NaN /\ b # NaN /\ a > b

ValidThresholdAlways(v) == TRUE

\* 0 <= new_threshold <= 1 (camera.py line 154);
\* 0 <= request.threshold <= 1 (main.py line 170)
ValidThreshold(v) == FloatLe(0, v) /\ FloatLe(v, 100)

\* zoom_factor > 0 (camera.py line 181)
ValidZoom(v) == FloatGt(v, 0)

\* request.zoom_factor <= 0 (main.py line 191)
ZoomNotPositive(v) == FloatLe(v, 0)

\* the arguments of the threshold writes: -0.1, 0, 1, 1.1 and nan
ThresholdArgs == {-10, 0, 100, 110, NaN}

\* the arguments of the zoom writes: -2, 0, 0.5 and nan
ZoomArgs == {-200, 0, 50, NaN}

\* the clients of the settings routes
Clients == 1 .. NumClients

\* the settings of the Video object
VideoSettings == [threshold |-> threshold, zoom_factor |-> zoom_factor]

\* the answer to a settings write: the route, its argument, the status the
\* handler answers with, the 'success' field of the body and the settings
\* the write changed
Reply(c, op, arg, status, success, pre, post) ==
    [client |-> c, op |-> op, arg |-> arg, status |-> status,
     success |-> success, changed |-> Changed(pre, post)]

(* src/app.py lines 31-52 with Video.set_threshold and Video.set_zoom *)

\* POST /threshold/<value>: camera_instance.set_threshold(value) tests
\* 0 <= new_threshold <= 1 and raises ValueError otherwise, which the route
\* answers with status 400
CallSetThreshold(c, v) ==
    /\ wpc[c].at = "idle"
    /\ IF ValidThreshold(v)
       THEN /\ wpc' = [wpc EXCEPT ![c] = [at |-> "thr_assign", arg |-> v]]
            /\ vop' = VideoOp("set_threshold", FALSE)
            /\ UNCHANGED reply
       ELSE /\ reply' = Reply(c, "app.set_threshold", v, 400, FALSE,
                              VideoSettings, VideoSettings)
            /\ vop' = VideoOp("set_threshold", TRUE)
            /\ UNCHANGED wpc
    /\ UNCHANGED <<sequence, predictions, sentence, threshold, zoom_factor,
                   appended, cycle, stub, cap>>
    /\ UNCHANGED <<camVars, detVars, current_settings, current_detections, http,
                   accepted, frame_processor>>

\* self.threshold = new_threshold; the route answers with status 200
SetThresholdAssign(c) ==
    /\ wpc[c].at = "thr_assign"
    /\ threshold' = wpc[c].arg
    /\ wpc' = [wpc EXCEPT ![c] = [at |-> "idle", arg |-> 0]]
    /\ reply' = Reply(c, "app.set_threshold", wpc[c].arg, 200, TRUE,
                      VideoSettings,
                      [VideoSettings EXCEPT !.threshold = wpc[c].arg])
    /\ accepted' = [accepted EXCEPT !.threshold = wpc[c].arg]
    /\ vop' = VideoOp("set_threshold", FALSE)
    /\ UNCHANGED <<sequence, predictions, sentence, zoom_factor, appended,
                   cycle, stub, cap>>
    /\ UNCHANGED <<camVars, detVars, current_settings, current_detections, http,
                   frame_processor>>

\* POST /zoom/<factor>: camera_instance.set_zoom(factor) tests
\* zoom_factor > 0 and raises ValueError otherwise, which the route answers
\* with status 400
CallSetZoom(c, v) ==
    /\ wpc[c].at = "idle"
    /\ IF ValidZoom(v)
       THEN /\ wpc' = [wpc EXCEPT ![c] = [at |-> "zoom_assign", arg |-> v]]
            /\ vop' = VideoOp("set_zoom", FALSE)
            /\ UNCHANGED reply
       ELSE /\ reply' = Reply(c, "app.set_zoom", v, 400, FALSE,
                              VideoSettings, VideoSettings)
            /\ vop' = VideoOp("set_zoom", TRUE)
            /\ UNCHANGED wpc
    /\ UNCHANGED <<sequence, predictions, sentence, threshold, zoom_factor,
                   appended, cycle, stub, cap>>
    /\ UNCHANGED <<camVars, detVars, current_settings, current_detections, http,
                   accepted, frame_processor>>

\* self.zoom_factor = zoom_factor; the route answers with status 200
SetZoomAssign(c) ==
    /\ wpc[c].at = "zoom_assign"
    /\ zoom_factor' = wpc[c].arg
    /\ wpc' = [wpc EXCEPT ![c] = [at |-> "idle", arg |-> 0]]
    /\ reply' = Reply(c, "app.set_zoom", wpc[c].arg, 200, TRUE,
                      VideoSettings,
                      [VideoSettings EXCEPT !.zoom_factor = wpc[c].arg])
    /\ accepted' = [accepted EXCEPT !.zoom_factor = wpc[c].arg]
    /\ vop' = VideoOp("set_zoom", FALSE)
    /\ UNCHANGED <<sequence, predictions, sentence, threshold, appended,
                   cycle, stub, cap>>
    /\ UNCHANGED <<camVars, detVars, current_settings, current_detections, http,
                   frame_processor>>

(* Video.get_frame and Video.get_predictions step by step, as two request *)
(* threads of the Flask application execute them on the one Video object   *)

\* what the two steps leave alone
streamFrame == <<camVars, detVars, current_settings, current_detections,
                 http, accepted, frame_processor>>

\* self.sequence.append(keypoints), camera.py line 207, after a read that
\* delivered a frame: the window holds one more feature vector
GetFrameAppend(c) ==
    /\ wpc[c].at = "idle"
    /\ sequence' = Append(sequence, appended + 1)
    /\ appended' = appended + 1
    /\ wpc' = [wpc EXCEPT ![c] = [at |-> "gf_slice", arg |-> 0]]
    /\ vop' = VideoOp("get_frame", FALSE)
    /\ UNCHANGED <<predictions, sentence, threshold, zoom_factor, cycle, stub,
                   cap, reply>>
    /\ UNCHANGED streamFrame

\* self.sequence = self.sequence[-30:], line 208, and the rest of get_frame
GetFrameSlice(c) ==
    /\ wpc[c].at = "gf_slice"
    /\ \E label \in Labels, conf \in Confs :
          predict_cycle(LastN(sequence, WindowLen), label, conf)
    /\ wpc' = [wpc EXCEPT ![c] = [at |-> "idle", arg |-> 0]]
    /\ UNCHANGED <<appended, stub, reply>>
    /\ UNCHANGED streamFrame

\* the answer of GET /predictions (app.py lines 39-44) to what
\* Video.get_predictions returned: the prediction with status 200, or the
\* message with status 204 for None; received is the number of feature
\* vectors the window had received when the request was made
PredictionsAnswer(c, received, prediction) ==
    [client |-> c, op |-> "app.get_predictions", arg |-> received,
     status |-> IF prediction = None THEN 204 ELSE 200,
     success |-> prediction # None, changed |-> {}]

\* if len(self.sequence) == 30: (line 165); return None (line 173)
GetPredictionsTest(c) ==
    /\ wpc[c].at = "idle"
    /\ IF Len(sequence) = WindowLen
       THEN /\ wpc' = [wpc EXCEPT ![c] = [at |-> "gp_predict",
                                          arg |-> appended]]
            /\ UNCHANGED reply
       ELSE /\ reply' = PredictionsAnswer(c, appended, None)
            /\ UNCHANGED wpc
    /\ vop' = VideoOp("get_predictions", FALSE)
    /\ UNCHANGED <<sequence, predictions, sentence, threshold, zoom_factor,
                   appended, cycle, stub, cap>>
    /\ UNCHANGED streamFrame

\* res = model.predict(np.expand_dims(self.sequence, axis=0))[0] and the
\* return of the dictionary (lines 166-172).  self.sequence is read again:
\* with 31 feature vectors in it the loaded model, which is not part of the
\* sources, answers or raises.
GetPredictionsPredict(c) ==
    /\ wpc[c].at = "gp_predict"
    /\ \E raised \in {FALSE, Len(sequence) # WindowLen} :
          /\ reply' = IF raised
                      THEN [PredictionsAnswer(c, wpc[c].arg, None)
                                EXCEPT !.status = 500]
                      ELSE PredictionsAnswer(c, wpc[c].arg, "prediction")
          /\ vop' = VideoOp("get_predictions", raised)
    /\ wpc' = [wpc EXCEPT ![c] = [at |-> "idle", arg |-> 0]]
    /\ UNCHANGED <<sequence, predictions, sentence, threshold, zoom_factor,
                   appended, cycle, stub, cap>>
    /\ UNCHANGED streamFrame

(* src/backend/main.py lines 166-206: the handlers are coroutines without  *)
(* an await, so each runs to its end before another handler starts         *)

\* the loop logs with the setting noted as written during the iteration
Noted(setting) ==
    [t \in Threads |-> IF tlog[t].track
                       THEN [tlog[t] EXCEPT !.written = @ \cup {setting}]
                       ELSE tlog[t]]

managerVars == <<video_capture, latest_frame, camera_running, camera_thread,
                 frame_lock, handle, tpc, tframe, reads, cpc, centry, calls,
                 stored, cgot>>

\* POST /threshold: if not (0 <= request.threshold <= 1): raise ValueError,
\* answered with {'success': False, 'error': ...}; otherwise
\* current_settings['confidence_threshold'] = request.threshold
ApiSetThreshold(c, v) ==
    /\ IF ~ValidThreshold(v)
       THEN /\ reply' = Reply(c, "main.set_threshold", v, 200, FALSE,
                              current_settings, current_settings)
            /\ UNCHANGED <<current_settings, accepted, tlog>>
       ELSE LET new == [current_settings EXCEPT !.confidence_threshold = v]
            IN /\ current_settings' = new
               /\ tlog' = Noted("confidence_threshold")
               /\ accepted' = [accepted EXCEPT !.main = new]
               /\ reply' = Reply(c, "main.set_threshold", v, 200, TRUE,
                                 current_settings, new)
    /\ UNCHANGED <<videoVars, managerVars, detVars, wpc, current_detections,
                   http, frame_processor>>

\* POST /zoom: if request.zoom_factor <= 0: raise ValueError, answered with
\* {'success': False, 'error': ...}; otherwise
\* current_settings['zoom_factor'] = request.zoom_factor
ApiSetZoom(c, v) ==
    /\ IF ZoomNotPositive(v)
       THEN /\ reply' = Reply(c, "main.set_zoom", v, 200, FALSE,
                              current_settings, current_settings)
            /\ UNCHANGED <<current_settings, accepted, tlog>>
       ELSE LET new == [current_settings EXCEPT !.zoom_factor = v]
            IN /\ current_settings' = new
               /\ tlog' = Noted("zoom_factor")
               /\ accepted' = [accepted EXCEPT !.main = new]
               /\ reply' = Reply(c, "main.set_zoom", v, 200, TRUE,
                                 current_settings, new)
    /\ UNCHANGED <<videoVars, managerVars, detVars, wpc, current_detections,
                   http, frame_processor>>

\* the state of the request handlers after construction: the Flask
\* application of app.py and the globals of main.py
InitHandlers ==
    /\ wpc = [c \in Clients |-> [at |-> "idle", arg |-> 0]]
    /\ current_settings = [confidence_threshold |-> DEFAULT_CONFIDENCE_THRESHOLD,
                           zoom_factor |-> DEFAULT_ZOOM_FACTOR]
    /\ current_detections = 0
    /\ http = [c \in Callers |-> NoResponse]
    /\ reply = NoReply
    /\ accepted = [threshold |-> DefaultThreshold,
                   zoom_factor |-> DefaultZoom,
                   main |-> [confidence_threshold |->
                                 DEFAULT_CONFIDENCE_THRESHOLD,
                             zoom_factor |-> DEFAULT_ZOOM_FACTOR]]

\* a CameraManager as constructed: self.frame_processor = None
InitApi == InitHandlers /\ frame_processor = FALSE

\* the server after lifespan's startup:
\* camera_manager.set_frame_processor(process_frame)
InitServer == InitHandlers /\ frame_processor = TRUE

-----------------------------------------------------------------------------
(* The zoom of the detector: ASLDetector.apply_zoom, detector.py lines      *)
(* 111-145.  A frame is its shape and the origin of its pixels; a zoom      *)
(* factor is the ratio num/den.                                             *)

Frame(h, w, px) == [h |-> h, w |-> w, px |-> px]

\* what escapes apply_zoom when cv2.resize or the paste raises
Raised == Frame(0, 0, "raised")

Ratio(num, den) == [num |-> num, den |-> den]

\* 1 / z
Inverse(z) == Ratio(z.den, z.num)

\* int(h / zoom_factor), line 129
IntDiv(h, z) == (h * z.den) \div z.num

\* int(h * zoom_factor), line 136
IntMul(h, z) == (h * z.num) \div z.den

\* the number of entries of the slice [from : to] of an axis of length len
SliceLen(len, from, to) ==
    LET lo == Min2(from, len)
        hi == Min2(to, len)
    IN  IF hi > lo THEN hi - lo ELSE 0

\* cv2.resize(src, (w, h)): an empty source or an empty size raises
cv2_resize(src, w, h) ==
    IF src.h = 0 \/ src.w = 0 \/ w = 0 \/ h = 0
    THEN Raised
    ELSE Frame(h, w, "resized")

\* new_h, new_w and start_y, start_x of lines 129-131 (zoom in) and of
\* lines 136, 141-142 (zoom out)
Region(frame, z) ==
    LET new_h == IF z.num > z.den THEN IntDiv(frame.h, z) ELSE IntMul(frame.h, z)
        new_w == IF z.num > z.den THEN IntDiv(frame.w, z) ELSE IntMul(frame.w, z)
    IN  [new_h |-> new_h, new_w |-> new_w,
         start_y |-> (frame.h - new_h) \div 2,
         start_x |-> (frame.w - new_w) \div 2]

apply_zoom(frame, z) ==
    LET r == Region(frame, z)
    IN  IF z.num = z.den
        THEN frame
        ELSE IF z.num > z.den
        THEN LET cropped ==
                   Frame(SliceLen(frame.h, r.start_y, r.start_y + r.new_h),
                         SliceLen(frame.w, r.start_x, r.start_x + r.new_w),
                         "cropped")
             IN  cv2_resize(cropped, frame.w, frame.h)
        ELSE LET resized == cv2_resize(frame, r.new_w, r.new_h)
                 target ==
                   Frame(SliceLen(frame.h, r.start_y, r.start_y + r.new_h),
                         SliceLen(frame.w, r.start_x, r.start_x + r.new_w),
                         "target")
             IN  IF resized = Raised
                    \/ resized.h # target.h \/ resized.w # target.w
                 THEN Raised
                 ELSE Frame(frame.h, frame.w, "padded")

\* the part of the input frame apply_zoom takes its pixels from: the crop
\* of line 132, or the whole frame, which line 137 shrinks
apply_zoom_source(frame, z) ==
    LET r == Region(frame, z)
    IN  IF z.num > z.den
        THEN [top |-> r.start_y,
              rows |-> SliceLen(frame.h, r.start_y, r.start_y + r.new_h),
              left |-> r.start_x,
              cols |-> SliceLen(frame.w, r.start_x, r.start_x + r.new_w)]
        ELSE [top |-> 0, rows |-> frame.h, left |-> 0, cols |-> frame.w]

(* The zoom step of Video.get_frame, camera.py lines 191-200 *)

\* the position a slice bound i denotes on an axis of length len: a
\* negative bound counts from the end, and bounds are clipped to the axis
PyIndex(len, i) ==
    IF i < 0
    THEN (IF i + len < 0 THEN 0 ELSE i + len)
    ELSE Min2(i, len)

\* the slice [from : to] of an axis of length len: its first position and
\* its number of entries
PySlice(len, from, to) ==
    LET lo == PyIndex(len, from)
        hi == PyIndex(len, to)
    IN  [first |-> lo, count |-> IF hi > lo THEN hi - lo ELSE 0]

\* new_h, new_w = int(h / zoom_factor), int(w / zoom_factor) and start_y,
\* start_x of lines 195-197, and the slice of line 199, for every factor
\* other than 1.0
zoom_step_source(frame, z) ==
    LET new_h == IntDiv(frame.h, z)
        new_w == IntDiv(frame.w, z)
        start_y == (frame.h - new_h) \div 2
        start_x == (frame.w - new_w) \div 2
        ys == PySlice(frame.h, start_y, start_y + new_h)
        xs == PySlice(frame.w, start_x, start_x + new_w)
    IN  [top |-> ys.first, rows |-> ys.count,
         left |-> xs.first, cols |-> xs.count]

\* if self.zoom_factor != 1.0: crop, then frame = cv2.resize(frame, (w, h))
zoom_step(frame, z) ==
    IF z.num = z.den
    THEN frame
    ELSE LET src == zoom_step_source(frame, z)
         IN  cv2_resize(Frame(src.rows, src.cols, "cropped"), frame.w, frame.h)

NoFrame == Frame(0, 0, "none")

\* no frame is handed to apply_zoom
InitDetector ==
    /\ zframe = NoFrame
    /\ zfactor = Ratio(1, 1)
    /\ zoomed = <<>>
    /\ vzoomed = <<>>

-----------------------------------------------------------------------------
(* Spec: the recogniser with a classifier free to answer anything *)

NoStub == [label |-> 0, left |-> 0]

Init == InitVideo /\ stub = NoStub /\ InitCam /\ InitApi /\ InitDetector

GetFrameOk ==
    /\ appended < MaxFrames
    /\ \E label \in Labels, conf \in Confs : get_frame(TRUE, label, conf)
    /\ UNCHANGED <<stub, camVars, apiVars, detVars>>

GetFrameReadFailed ==
    /\ get_frame(FALSE, 0, 0)
    /\ UNCHANGED <<stub, camVars, apiVars, detVars>>

Restart == appended > 0 /\ start /\ UNCHANGED <<camVars, apiVars, detVars>>

Next == GetFrameOk \/ GetFrameReadFailed \/ Restart

Spec == Init /\ [][Next]_vars

-----------------------------------------------------------------------------
(* SpecConst: identical frames and a classifier that always answers the    *)
(* same label with confidence StubConfidence; the run starts with the      *)
(* threshold of the script (0.5) or of Video (0.8).                        *)

InitConst ==
    /\ sequence = <<>>
    /\ predictions = <<>>
    /\ sentence = <<>>
    /\ threshold \in {ScriptThreshold, DefaultThreshold}
    /\ zoom_factor = DefaultZoom
    /\ appended = 0
    /\ cycle = NoCycle
    /\ vop = Constructed
    /\ cap = "open"
    /\ \E label \in Labels : stub = [label |-> label, left |-> 0]
    /\ InitCam
    /\ InitApi
    /\ InitDetector

GetFrameConst ==
    /\ appended < MaxFramesConst
    /\ get_frame(TRUE, stub.label, StubConfidence)
    /\ UNCHANGED <<stub, camVars, apiVars, detVars>>

NextConst == GetFrameConst \/ GetFrameReadFailed

SpecConst == InitConst /\ [][NextConst]_vars

-----------------------------------------------------------------------------
(* SpecHold: a classifier that keeps each label for Hold predictions in a  *)
(* row (a signer holding each sign), with any confidence on each of them.  *)

InitHold ==
    /\ InitVideo
    /\ \E label \in Labels : stub = [label |-> label, left |-> Hold]
    /\ InitCam
    /\ InitApi
    /\ InitDetector

\* the stub after one get_frame call that read a frame
StubAfter(label) ==
    IF appended + 1 < WindowLen THEN stub
    ELSE IF stub.left > 1 THEN [stub EXCEPT !.left = stub.left - 1]
    ELSE [label |-> label, left |-> Hold]

GetFrameHold ==
    /\ appended < MaxFramesHold
    /\ \E conf \in Confs : get_frame(TRUE, stub.label, conf)
    /\ \E label \in Labels : stub' = StubAfter(label)
    /\ UNCHANGED <<camVars, apiVars, detVars>>

NextHold == GetFrameHold \/ GetFrameReadFailed

SpecHold == InitHold /\ [][NextHold]_vars

-----------------------------------------------------------------------------
(* SpecStart: any caller may request a start at any time, through          *)
(* start_stream or through start_camera, and the requests interleave.      *)

NextStart ==
    \/ \E c \in Callers : CallStartCamera(c)
    \/ \E c \in Callers : CallStartStream(c)
    \/ \E c \in Callers : StartCheck(c)
    \/ \E c \in Callers : StartCameraStep(c)
    \/ \E t \in Threads : CaptureStep(t)

SpecStart == Init /\ [][NextStart]_vars

-----------------------------------------------------------------------------
(* SpecFrame: one caller starts the camera, the capture thread publishes   *)
(* and the other callers fetch the latest frame concurrently.              *)

\* the controller asks for a start until the camera runs
CallStartCameraOnce(c) == ~camera_running /\ CallStartCamera(c)

NextFrame ==
    \/ CallStartCameraOnce(Controller)
    \/ StartCameraStep(Controller)
    \/ \E c \in Readers : CallGetLatestFrame(c)
    \/ \E c \in Readers : GetLock(c)
    \/ \E c \in Readers : GetReturn(c)
    \/ \E t \in Threads : CaptureStep(t)

SpecFrame == Init /\ [][NextFrame]_vars

-----------------------------------------------------------------------------
(* SpecSeq: one caller calls start_camera and stop_camera one after the    *)
(* other; the capture threads run beside it.                               *)

NextSeq ==
    \/ CallStartCamera(Controller)
    \/ CallStopCamera(Controller)
    \/ StartCameraStep(Controller)
    \/ StopCameraStep(Controller)
    \/ \E t \in Threads : CaptureStep(t)

SpecSeq == Init /\ [][NextSeq]_vars

-----------------------------------------------------------------------------
(* SpecLife: two callers call start_camera and stop_camera at any time, so  *)
(* that their calls interleave.  The capture threads they create take no    *)
(* step here: no step of a capture thread writes camera_running,            *)
(* video_capture or a device handle.                                        *)

\* the caller that starts and stops the camera beside the controller
Rival == 2

Operators == {Controller, Rival}

NextLife ==
    \/ \E c \in Operators : CallStartCamera(c)
    \/ \E c \in Operators : CallStopCamera(c)
    \/ \E c \in Operators : StartCameraStep(c)
    \/ \E c \in Operators : StopCameraStep(c)

SpecLife == Init /\ [][NextLife]_vars

-----------------------------------------------------------------------------
(* SpecStop: the server runs the camera once: the controller starts it     *)
(* until a capture thread exists, then stops it; no start follows a stop.  *)
(* SpecStopLive adds the scheduling of the threads: a capture thread that  *)
(* can take a step takes it, and a stop_camera call goes on to its end.    *)

InitServing ==
    InitVideo /\ stub = NoStub /\ InitLogged /\ InitServer /\ InitDetector

\* the controller calls start_camera while no capture thread was created
CallStartCameraFirst(c) == nThreads = 0 /\ CallStartCamera(c)

\* the controller posts /start_stream while no capture thread was created
CallStartStreamFirst(c) == nThreads = 0 /\ CallStartStream(c)

NextStop ==
    \/ CallStartCameraFirst(Controller)
    \/ CallStartStreamFirst(Controller)
    \/ StartCheck(Controller)
    \/ CallStopStream(Controller)
    \/ StopCheck(Controller)
    \/ StopStreamClear(Controller)
    \/ CallStopCamera(Controller)
    \/ StartCameraStep(Controller)
    \/ StopCameraStep(Controller)
    \/ \E t \in Threads : CaptureStep(t)

SpecStop == InitServing /\ [][NextStop]_vars

SpecStopLive ==
    /\ SpecStop
    /\ \A t \in Threads : WF_vars(CaptureStep(t))
    /\ WF_vars(StopCameraStep(Controller))

-----------------------------------------------------------------------------
(* SpecServe: the server runs the camera and a client writes the settings   *)
(* through POST /threshold and POST /zoom while the capture thread loops.   *)

\* the client that writes the settings
Writer == 1

NextServe ==
    \/ CallStartStreamFirst(Controller)
    \/ StartCheck(Controller)
    \/ StartCameraStep(Controller)
    \/ \E t \in Threads : CaptureStep(t)
    \/ \E v \in ThresholdArgs : ApiSetThreshold(Writer, v)
    \/ \E v \in ZoomArgs : ApiSetZoom(Writer, v)

InitServe ==
    InitVideo /\ stub = NoStub /\ InitTracked /\ InitServer /\ InitDetector

SpecServe == InitServe /\ [][NextServe]_vars

-----------------------------------------------------------------------------
(* SpecVideo: the operations of the Video object, called one after the     *)
(* other as the routes of app.py call them: frames, pause and resume,      *)
(* predictions and settings writes; the classifier may fail.               *)

VideoGetFrame ==
    /\ cap = "open"
    /\ appended < MaxFramesVideo
    /\ \E label \in Labels, conf \in Confs : get_frame(TRUE, label, conf)
    /\ UNCHANGED <<stub, camVars, apiVars, detVars>>

VideoGetFrameFailed ==
    /\ cap = "open"
    /\ appended < MaxFramesVideo
    /\ get_frame_failed
    /\ UNCHANGED <<stub, camVars, apiVars, detVars>>

\* GET /pause
Pause == release /\ UNCHANGED <<camVars, apiVars, detVars>>

\* GET /resume
Resume == start /\ UNCHANGED <<camVars, apiVars, detVars>>

\* GET /predictions
GetPredictions == get_predictions /\ UNCHANGED <<camVars, apiVars, detVars>>

NextVideo ==
    \/ VideoGetFrame
    \/ VideoGetFrameFailed
    \/ GetFrameReadFailed
    \/ Pause
    \/ Resume
    \/ GetPredictions
    \/ \E v \in ThresholdArgs : CallSetThreshold(Controller, v)
    \/ SetThresholdAssign(Controller)
    \/ \E v \in ZoomArgs : CallSetZoom(Controller, v)
    \/ SetZoomAssign(Controller)

SpecVideo == Init /\ [][NextVideo]_vars

-----------------------------------------------------------------------------
(* SpecPredict: one request thread streams frames (GET /video) while        *)
(* another asks for predictions (GET /predictions); no pause or resume.     *)

\* the client whose GET /video streams; the other clients ask
Streamer == 1

NextPredict ==
    \/ appended < MaxFramesPredict /\ GetFrameAppend(Streamer)
    \/ GetFrameSlice(Streamer)
    \/ \E c \in Clients \ {Streamer} : GetPredictionsTest(c)
    \/ \E c \in Clients \ {Streamer} : GetPredictionsPredict(c)

SpecPredict == Init /\ [][NextPredict]_vars

-----------------------------------------------------------------------------
(* SpecSettings: clients write the settings concurrently, through the      *)
(* routes of app.py and through the handlers of main.py.                   *)

NextSettings ==
    \/ \E c \in Clients, v \in ThresholdArgs : CallSetThreshold(c, v)
    \/ \E c \in Clients : SetThresholdAssign(c)
    \/ \E c \in Clients, v \in ZoomArgs : CallSetZoom(c, v)
    \/ \E c \in Clients : SetZoomAssign(c)
    \/ \E c \in Clients, v \in ThresholdArgs : ApiSetThreshold(c, v)
    \/ \E c \in Clients, v \in ZoomArgs : ApiSetZoom(c, v)

SpecSettings == Init /\ [][NextSettings]_vars

-----------------------------------------------------------------------------
(* SpecZoom: apply_zoom applied to a frame with a zoom factor that the      *)
(* settings accept, and then to its result with the inverse factor.         *)

Dims == 1 .. MaxDim

\* the zoom factors num/den > 0 (main.py line 191 rejects the others)
ZoomFactors == {Ratio(n, d) : n \in 1 .. MaxZoomTerm, d \in 1 .. MaxZoomTerm}

InitZoom ==
    /\ InitVideo /\ stub = NoStub /\ InitCam /\ InitApi
    /\ zframe \in {Frame(h, w, "input") : h \in Dims, w \in Dims}
    /\ zfactor \in ZoomFactors
    /\ zoomed = <<>>
    /\ vzoomed = <<>>

\* zoomed_frame = self.apply_zoom(frame, zoom_factor)
ApplyZoom ==
    /\ zoomed = <<>>
    /\ zoomed' = <<apply_zoom(zframe, zfactor)>>
    /\ UNCHANGED <<zframe, zfactor, vzoomed, videoVars, camVars, apiVars>>

\* apply_zoom applied to the zoomed frame with 1 / zoom_factor
ApplyZoomBack ==
    /\ Len(zoomed) = 1
    /\ zoomed[1] # Raised
    /\ zoomed' = Append(zoomed, apply_zoom(zoomed[1], Inverse(zfactor)))
    /\ UNCHANGED <<zframe, zfactor, vzoomed, videoVars, camVars, apiVars>>

\* the zoom step of Video.get_frame on the same frame and factor
VideoZoom ==
    /\ vzoomed = <<>>
    /\ vzoomed' = <<zoom_step(zframe, zfactor)>>
    /\ UNCHANGED <<zframe, zfactor, zoomed, videoVars, camVars, apiVars>>

NextZoom == ApplyZoom \/ ApplyZoomBack \/ VideoZoom

SpecZoom == InitZoom /\ [][NextZoom]_vars

-----------------------------------------------------------------------------
(* Claims about the recogniser *)

\* the last HistoryLen raw predictions are identical
Unanimous(preds) == Cardinality(Range(LastN(preds, HistoryLen))) = 1

\* the label the last cycle predicted differs from the last committed one
CycleNotRepeated ==
    cycle.prev = <<>> \/ ActionName(cycle.label) # Last(cycle.prev)

\* C1: in a get_frame cycle whose window is full the predicted label is
\* appended to the sentence if and only if the last 10 raw predictions (all
\* of them when fewer exist) are identical, the confidence is strictly above
\* the threshold, and the sentence is empty or ends with another label; in
\* every other cycle the sentence gains no label.
C1_CommitIffThreeWayGate ==
    /\ cycle.ran =>
          (cycle.commit <=> /\ Unanimous(predictions)
                            /\ cycle.conf > threshold
                            /\ CycleNotRepeated)
    /\ ~cycle.ran => (~cycle.commit /\ sentence = cycle.prev)

\* s alternates between two labels
Alternating(s) ==
    /\ Len(s) >= 2
    /\ s[1] # s[2]
    /\ \A i \in 1 .. Len(s) : s[i] = s[IF i % 2 = 1 THEN 1 ELSE 2]

\* C2: a single dissenting entry blocks commitment: in a cycle where the
\* last 10 history entries hold more than one distinct value no label is
\* appended, whatever the confidence; when the first 10 raw predictions
\* alternate between two labels the sentence is empty after the 10th.
C2_DissentBlocksCommit ==
    /\ (cycle.ran /\ ~Unanimous(predictions)) => ~cycle.commit
    /\ (Len(predictions) = HistoryLen /\ Alternating(predictions))
          => sentence = <<>>

\* C3: with identical frames and a classifier that always answers label A
\* with confidence 0.9 the sentence is empty after each of frames 1 to 29,
\* is exactly [A] after frame 30 and stays exactly [A] after every later
\* frame (for the threshold 0.5, and for Video's 0.8 as well).
C3_ConstantStreamCommitsOnce ==
    /\ appended < WindowLen => sentence = <<>>
    /\ appended >= WindowLen => sentence = <<ActionName(stub.label)>>

C3_Witness ==
    /\ threshold = ScriptThreshold
    /\ appended = WindowLen + 5
    /\ Len(predictions) = 6
    /\ sentence = <<ActionName(stub.label)>>
    /\ cycle.ran /\ ~cycle.commit

\* C4: after n appends of a run the window holds exactly min(n, 30) feature
\* vectors, the most recent ones in arrival order; it never holds more
\* than 30 at the end of a call.
C4_WindowIsLastArrivals ==
    /\ Len(sequence) = Min2(appended, WindowLen)
    /\ Len(sequence) <= WindowLen
    /\ \A i \in 1 .. Len(sequence) :
          sequence[i] = appended - Len(sequence) + i

C4_Witness ==
    /\ appended = WindowLen + 3
    /\ Len(sequence) = WindowLen
    /\ sequence[1] = 4
    /\ Last(sequence) = appended

\* C5: once the window of a run has received 30 feature vectors, every
\* later successful get_frame call invokes the classifier and appends one
\* raw prediction; the window stays full until the next start().
C5_ReadyStaysReady ==
    appended >= WindowLen =>
        /\ Len(sequence) = WindowLen
        /\ Len(predictions) = appended - WindowLen + 1
        /\ cycle.ret => (cycle.ran /\ Len(predictions) = cycle.npred + 1)

C5_Witness ==
    /\ appended = WindowLen + 2
    /\ cycle.ret /\ cycle.ran
    /\ Len(predictions) = 3

\* C6: after every get_frame call the sentence holds at most 5 labels; a
\* commit that would make it 6 drops the oldest label and keeps the other 5
\* in order.
C6_SentenceCapped ==
    /\ Len(sentence) <= SentenceCap
    /\ cycle.commit =>
          sentence = LastN(Append(cycle.prev, ActionName(cycle.label)),
                           SentenceCap)
    /\ (cycle.commit /\ Len(cycle.prev) = SentenceCap) =>
          /\ SubSeq(sentence, 1, SentenceCap - 1) = Tail(cycle.prev)
          /\ Last(sentence) = ActionName(cycle.label)

C6_Witness ==
    /\ cycle.commit
    /\ Len(cycle.prev) = SentenceCap
    /\ Len(sentence) = SentenceCap

\* C7: the history of raw predictions is capped at 10 entries: after any
\* number of prediction cycles it holds at most 10 raw predictions.
C7_HistoryCapped == Len(predictions) <= HistoryLen

-----------------------------------------------------------------------------
(* Claims about the camera manager *)

\* the place of a returned value among the stored frames (0 for None)
Published(v) == IF v = 0 THEN 0 ELSE CHOOSE i \in 1 .. Len(stored) : stored[i] = v

\* C8: with one capture thread publishing and any number of concurrent
\* get_latest_frame callers, every value returned is None or one whole
\* value the capture thread stored, the one most recently stored while the
\* reader held the lock; successive reads of one reader never go back to an
\* older published value.
C8_ReadersSeeLatestWholeFrame ==
    \A c \in Readers :
        /\ cgot[c].n > 0 =>
              /\ cgot[c].val = 0 \/ cgot[c].val \in Range(stored)
              /\ cgot[c].val = cgot[c].locked
              /\ cgot[c].val = cgot[c].last
              /\ Published(cgot[c].val) >= Published(cgot[c].prev)
        /\ cpc[c] = "gl_return" =>
              /\ latest_frame = cgot[c].held
              /\ \A t \in Threads : tpc[t] # "store"

C8_Witness ==
    /\ nThreads = 1
    /\ \E c, d \in Readers :
          /\ c # d
          /\ cgot[c].n = 2
          /\ cgot[c].prev = 1
          /\ cgot[c].val = 2
          /\ cpc[d] = "gl_return"
          /\ cgot[d].held = 2

\* C9: under any interleaving of concurrent start requests on one
\* CameraManager at most one device handle is opened and at most one
\* capture thread is created.
C9_OneHandleOneThread ==
    /\ Cardinality({h \in Handles : handle[h] = "open"}) <= 1
    /\ nThreads <= 1

\* C10: called sequentially, start_camera while camera_running is True
\* returns True and opens no device and creates no thread; stop_camera
\* while camera_running is False returns True and leaves video_capture,
\* latest_frame and camera_thread as they were; a stop_camera right after
\* a stop_camera changes nothing.
C10_LifecycleNoOps ==
    \A i \in 1 .. Len(calls) :
        /\ (calls[i].op = "start" /\ calls[i].running) =>
              /\ calls[i].ret = TRUE
              /\ calls[i].changed \cap {"handles", "threads"} = {}
        /\ (calls[i].op = "stop" /\ ~calls[i].running) =>
              /\ calls[i].ret = TRUE
              /\ calls[i].changed \cap {"capture", "frame", "thread"} = {}
        /\ (i > 1 /\ calls[i].op = "stop" /\ calls[i - 1].op = "stop") =>
              /\ ~calls[i].running
              /\ calls[i].changed = {}

C10_Witness ==
    /\ Len(calls) = 3
    /\ calls[1].op = "start" /\ calls[1].running
    /\ calls[2].op = "stop" /\ calls[2].running
    /\ calls[3].op = "stop" /\ ~calls[3].running

\* stop_camera has cleared camera_running (a thread exists, so the flag was
\* set before)
FlagCleared == ~camera_running /\ nThreads > 0

\* the thread has left its loop, or was never created
Terminated(t) == tpc[t] \in {"unborn", "done"}

\* C11: after stop_camera has set camera_running to False, and with no
\* start_camera after it, every capture thread stores at most one more
\* frame (the one of the iteration in flight) and, scheduled fairly, leaves
\* its loop at the next test of the flag.
C11_StopEndsLoop ==
    /\ [](\A t \in Threads : tlog[t].late <= 1)
    /\ \A t \in Threads : FlagCleared ~> Terminated(t)

C11_Witness ==
    \E t \in Threads : tlog[t].late = 1 /\ tpc[t] = "done"

\* the last call to return was a stop_camera that found the camera running
\* and returned True
StopReturned ==
    /\ calls # <<>>
    /\ Last(calls).op = "stop"
    /\ Last(calls).running
    /\ Last(calls).ret = TRUE

\* C12: once stop_camera has returned True from a running state, and until
\* a later start_camera's thread publishes, latest_frame is None (so
\* get_latest_frame returns None): the stopped run's capture thread stores
\* no frame after the clear, also when the join returned by timeout.
C12_ClearedAfterStop == StopReturned => latest_frame = 0

\* C15: the settings outlive a restart of the pipeline: after a stop
\* followed by a start the confidence threshold and the zoom factor are
\* what they were before the stop; a (re)start resets only the window, the
\* prediction history and the sentence.
C15_SettingsOutliveRestart ==
    [][(vop.op = "release" /\ vop'.op = "start")
          => (threshold' = threshold /\ zoom_factor' = zoom_factor)]_vars

\* C16: the window, the history and the sentence are empty right after a
\* (re)start, and nothing else resets them: set_threshold, set_zoom,
\* get_predictions, release and a get_frame whose read failed leave the
\* three unchanged; a get_frame that read a frame appends one feature
\* vector to the window (keeping the last 30), at most one prediction to
\* the history and at most one label to the sentence (keeping the last 5).
C16_ResetOnlyAtStart ==
    /\ [](vop.op = "start" =>
            (sequence = <<>> /\ predictions = <<>> /\ sentence = <<>>))
    /\ [][/\ vop'.op \in {"set_threshold", "set_zoom", "get_predictions",
                          "release"}
              => UNCHANGED <<sequence, predictions, sentence>>
          /\ (vop'.op = "get_frame" /\ ~cycle'.ret)
              => UNCHANGED <<sequence, predictions, sentence>>
          /\ (vop'.op = "get_frame" /\ cycle'.ret)
              => /\ sequence' = LastN(Append(sequence, appended'), WindowLen)
                 /\ \/ predictions' = predictions
                    \/ \E l \in Labels : predictions' = Append(predictions, l)
                 /\ \/ sentence' = sentence
                    \/ \E l \in Labels :
                          sentence' = LastN(Append(sentence, ActionName(l)),
                                            SentenceCap)]_vars

C16_Witness ==
    /\ vop.op = "set_zoom" /\ ~vop.raised
    /\ zoom_factor = 50
    /\ cap = "released"
    /\ Len(sequence) = WindowLen
    /\ Len(predictions) = 1
    /\ sentence # <<>>

\* C25: in the Flask variant Video.start() called while the capture is
\* active is a no-op: it creates no second capture and leaves the window,
\* the history and the sentence unchanged.
C25_StartWhileActiveNoOp ==
    [][(vop'.op = "start" /\ cap = "open") =>
          /\ ~vop'.opened
          /\ UNCHANGED <<sequence, predictions, sentence>>]_vars

\* C26: in the Flask variant a failed device read inside get_frame leaves
\* the window, the history and the sentence unchanged and does not end the
\* generator gen(), which goes on to deliver the frames read afterwards.
C26_ReadFailureKeepsStream ==
    [][(vop'.op = "get_frame" /\ ~cycle'.ret) =>
          /\ UNCHANGED <<sequence, predictions, sentence>>
          /\ vop'.gen # "ended"]_vars

\* no two neighbours of the sequence are equal
NoAdjacentEqual(s) == \A i \in 1 .. Len(s) - 1 : s[i] # s[i + 1]

\* C28: in every reachable state of the recogniser the sentence holds no
\* two adjacent equal labels, also after a commit that truncated it to its
\* last 5 entries; a label equal to the last one of the sentence is not
\* committed.
C28_NoAdjacentRepeat ==
    /\ NoAdjacentEqual(sentence)
    /\ (cycle.commit /\ cycle.prev # <<>>) =>
          Last(cycle.prev) # ActionName(cycle.label)

C28_Witness ==
    /\ cycle.commit
    /\ Len(cycle.prev) = SentenceCap
    /\ sentence = Append(Tail(cycle.prev), ActionName(cycle.label))
    /\ sentence[1] = sentence[3]

\* C17: when the classifier call fails in a get_frame cycle whose window
\* is full, the new feature vector is in the window, the sentence and the
\* history are as before the call, and no exception leaves get_frame.
C17_ClassifierFailureAbsorbed ==
    vop.failed =>
        /\ Len(sequence) = WindowLen /\ Last(sequence) = appended
        /\ sentence = cycle.prev
        /\ Len(predictions) = cycle.npred
        /\ ~vop.raised

-----------------------------------------------------------------------------
(* Claims about the settings *)

\* C13: under any interleaving of concurrent threshold and zoom writes with
\* valid or invalid arguments, the confidence threshold is within [0, 1]
\* and the zoom factor is greater than 0, and each setting equals its
\* default or the argument of the last accepted write to it.
C13_SettingsAlwaysValid ==
    /\ FloatLe(0, threshold) /\ FloatLe(threshold, 100)
    /\ FloatGt(zoom_factor, 0)
    /\ FloatLe(0, current_settings.confidence_threshold)
    /\ FloatLe(current_settings.confidence_threshold, 100)
    /\ FloatGt(current_settings.zoom_factor, 0)
    /\ threshold \in {DefaultThreshold, accepted.threshold}
    /\ zoom_factor \in {DefaultZoom, accepted.zoom_factor}
    /\ current_settings.confidence_threshold \in
          {DEFAULT_CONFIDENCE_THRESHOLD, accepted.main.confidence_threshold}
    /\ current_settings.zoom_factor \in
          {DEFAULT_ZOOM_FACTOR, accepted.main.zoom_factor}

ThresholdRoutes == {"app.set_threshold", "main.set_threshold"}
ZoomRoutes == {"app.set_zoom", "main.set_zoom"}

\* the client was told of an error: an error status, or a body whose
\* 'success' is False
Rejected(r) == r.status >= 400 \/ ~r.success

\* C14: a threshold write below 0 or above 1 and a zoom write of 0 or less
\* are answered with an error the client sees and change no setting; a
\* threshold write of 0 or 1 and a zoom write of 0.5 are accepted and change
\* only the setting written.
C14_InvalidWritesRejected ==
    /\ (reply.op \in ThresholdRoutes /\ reply.arg # NaN
           /\ (reply.arg < 0 \/ reply.arg > 100))
          => (Rejected(reply) /\ reply.changed = {})
    /\ (reply.op \in ZoomRoutes /\ reply.arg # NaN /\ reply.arg <= 0)
          => (Rejected(reply) /\ reply.changed = {})
    /\ (reply.op \in ThresholdRoutes /\ reply.arg \in {0, 100})
          => /\ ~Rejected(reply)
             /\ reply.changed \subseteq {"threshold", "confidence_threshold"}
             /\ reply.arg \in {threshold, current_settings.confidence_threshold}
    /\ (reply.op \in ZoomRoutes /\ reply.arg = 50)
          => /\ ~Rejected(reply)
             /\ reply.changed \subseteq {"zoom_factor"}

C14_Witness ==
    /\ reply.op = "main.set_zoom" /\ reply.arg = 0 /\ Rejected(reply)
    /\ threshold = 0
    /\ zoom_factor = 50
    /\ current_settings.confidence_threshold = 100

-----------------------------------------------------------------------------
(* Claims about the failures of the capture loop and of the device *)

\* thread t's iteration is cut short by an exception of the frame processor
\* or of the encoder
RaiseStep(t) ==
    /\ tlog[t].raised = "no"
    /\ tlog'[t].raised \in {"processor", "encoder"}

\* C18: when the frame processor or the encoder raises in an iteration of
\* the capture loop, the error stays inside the iteration: latest_frame
\* keeps its value, the iteration's frame contributes no detections, and
\* the loop goes back to its test, which starts the next iteration while
\* camera_running is True.
C18_ProcessingErrorSwallowed ==
    [][\A t \in Threads :
          /\ RaiseStep(t) =>
                /\ latest_frame' = latest_frame
                /\ stored' = stored
                /\ current_detections' # tframe[t]
                /\ tpc'[t] = "top"
          /\ (tpc[t] = "top" /\ tpc'[t] # "top" /\ camera_running) =>
                tpc'[t] = "read"]_vars

\* thread t's read of the device fails
ReadFailedStep(t) ==
    /\ tpc[t] = "read"
    /\ tpc'[t] \notin {"read", "process"}
    /\ video_capture # 0

\* C19: a failed read in the capture loop publishes nothing and leaves
\* latest_frame unchanged, and the loop retries; however many reads fail in
\* a row the loop does not end while camera_running is True, and the first
\* frame read after them is processed and published as any other.
C19_ReadFailureRetried ==
    /\ [][\A t \in Threads :
             /\ ReadFailedStep(t) =>
                   /\ latest_frame' = latest_frame
                   /\ stored' = stored
                   /\ current_detections' = current_detections
                   /\ tpc'[t] = "top"
             /\ (tpc[t] = "top" /\ tpc'[t] # "top" /\ camera_running) =>
                   tpc'[t] = "read"
             /\ (tpc[t] = "store" /\ tpc'[t] # "store") =>
                   (latest_frame' = tframe[t] /\ tframe[t] # 0)]_vars
    /\ [][\A t \in Threads :
             (tpc[t] # "done" /\ tpc'[t] = "done") => ~camera_running]_vars
    /\ [](\A t \in Threads :
             tpc[t] \in {"process", "encode", "lock", "store"} =>
                 (tframe[t] # 0 /\ tframe[t] \notin Range(stored)))

C19_Witness ==
    \E t \in Threads :
        /\ tlog[t].after = MaxFails
        /\ tpc[t] = "read"
        /\ camera_running
        /\ latest_frame = reads
        /\ latest_frame # 0

\* C20: when the device cannot be opened start_camera returns False,
\* camera_running stays False, no capture thread is started and
\* latest_frame is unchanged; start_stream answers with an error; a
\* start_camera after it that opens the device returns True.
C20_OpenFailureReported ==
    /\ \A i \in 1 .. Len(calls) :
          /\ (calls[i].op = "start" /\ calls[i].ret = FALSE) =>
                /\ ~calls[i].running
                /\ calls[i].changed \cap
                      {"running", "thread", "threads", "frame"} = {}
          /\ (i > 1 /\ calls[i].op = "start" /\ calls[i - 1].op = "start"
                /\ calls[i - 1].ret = FALSE) =>
                (calls[i].ret = TRUE <=> "threads" \in calls[i].changed)
    /\ (calls # <<>> /\ Last(calls).op = "start" /\ Last(calls).ret = FALSE
          /\ cpc[Controller] = "idle") =>
          /\ ~camera_running
          /\ http[Controller].op = "start_stream" =>
                (http[Controller].status = 500 /\ ~http[Controller].success)
    /\ \A c \in Callers :
          (http[c].op = "start_stream" /\ http[c].status = 200) =>
              http[c].success

C20_Witness ==
    /\ Len(calls) = 2
    /\ calls[1].op = "start" /\ calls[1].ret = FALSE
    /\ calls[2].op = "start" /\ calls[2].ret = TRUE
    /\ http[Controller].op = "start_stream"
    /\ http[Controller].status = 200
    /\ nThreads = 1
    /\ latest_frame = 1

-----------------------------------------------------------------------------
(* Claims about the zoom *)

Even(n) == n % 2 = 0

\* C22: for a frame of even height and width and an accepted zoom factor z,
\* apply_zoom with z and then with 1/z yields a frame of the height and
\* width of the input; apply_zoom with z = 1.0 returns the input frame.
C22_ZoomRoundTrip ==
    /\ (Len(zoomed) >= 1 /\ zfactor.num = zfactor.den) => zoomed[1] = zframe
    /\ (Len(zoomed) >= 1 /\ Even(zframe.h) /\ Even(zframe.w)) =>
          /\ zoomed[1] # Raised
          /\ Len(zoomed) = 2 =>
                (zoomed[2].h = zframe.h /\ zoomed[2].w = zframe.w)

\* C27: for every zoom factor z > 0 other than 1 and every frame of height
\* and width at least 1, the region apply_zoom computes has at least one
\* row and one column, lies inside the frame and is centered, and the
\* result has the shape of the frame.
C27_ZoomRegionInsideFrame ==
    (Len(zoomed) >= 1 /\ zfactor.num # zfactor.den) =>
        LET r == Region(zframe, zfactor)
        IN  /\ r.new_h >= 1 /\ r.new_w >= 1
            /\ r.start_y >= 0 /\ r.start_y + r.new_h <= zframe.h
            /\ r.start_x >= 0 /\ r.start_x + r.new_w <= zframe.w
            /\ (zframe.h - r.new_h - r.start_y) - r.start_y \in {0, 1}
            /\ (zframe.w - r.new_w - r.start_x) - r.start_x \in {0, 1}
            /\ zoomed[1].h = zframe.h /\ zoomed[1].w = zframe.w

-----------------------------------------------------------------------------
(* Claims about the ownership of the frame buffer and of the device *)

\* the threads that are executing _capture_frames
Alive == {t \in Threads : tpc[t] \notin {"unborn", "done"}}

\* C23: for every sequence of start_camera and stop_camera calls, also a
\* stop_camera whose join returned by timeout followed by a start_camera,
\* at most one thread executing _capture_frames is alive at any time.
C23_OneCaptureThread == Cardinality(Alive) <= 1

\* C24: stop_camera releases the device and sets video_capture to None
\* only after the capture thread has ended, and a capture thread never
\* calls read() on a released or None video_capture.
C24_DeviceOwnedByLoop ==
    [][/\ (\E c \in Callers : cpc[c] = "st_release" /\ cpc'[c] # "st_release")
           => Alive = {}
       /\ \A t \in Threads :
             (tpc[t] = "read" /\ tpc'[t] # "read") =>
                 (video_capture # 0 /\ handle[video_capture] = "open")]_vars

\* C29: under any interleaving of start_camera and stop_camera calls made
\* by concurrent callers, whenever camera_running is True video_capture
\* refers to a device handle that is not None and has not been released.
C29_RunningHasOpenDevice ==
    camera_running => (video_capture # 0 /\ handle[video_capture] = "open")

\* the last answer the controller received is stop_stream's "stopped"
StreamStopped ==
    /\ http[Controller].op = "stop_stream"
    /\ http[Controller].status = 200
    /\ http[Controller].success

\* C30: after stop_stream has returned its "stopped" response
\* current_detections is empty and stays empty until the next successful
\* start_stream: the capture thread of the stopped run writes no
\* detections after stop_stream cleared them.
C30_DetectionsStayCleared == StreamStopped => current_detections = 0

-----------------------------------------------------------------------------
(* Claims about the settings read by the capture loop *)

SettingNames == {"confidence_threshold", "zoom_factor"}

\* thread t has processed the frame of its iteration
Processed(t) == tpc[t] \in {"encode", "lock", "store"}

\* C21: the capture loop reads the settings afresh on every iteration: an
\* iteration that began after the last accepted write of a setting
\* processes its frame with the written value, so a change is in effect
\* at most one iteration after it was written.
C21_SettingsReadEveryIteration ==
    \A t \in Threads : \A s \in SettingNames :
        (Processed(t) /\ s \notin tlog[t].written) =>
            /\ tlog[t].used[s] = current_settings[s]
            /\ tlog[t].used[s] = accepted.main[s]

C21_Witness ==
    \E t \in Threads :
        /\ Processed(t)
        /\ tframe[t] = 2
        /\ tlog[t].written = {}
        /\ tlog[t].used = [confidence_threshold |-> 100, zoom_factor |-> 50]
        /\ reply.op = "main.set_zoom"

-----------------------------------------------------------------------------
(* Claims about the two zoom implementations *)

\* C32: for every zoom factor z > 0 other than 1 and every frame size
\* (h, w), the zoom step of Video.get_frame and ASLDetector.apply_zoom take
\* their pixels from the same region of the frame and produce a frame of
\* shape (h, w), for z > 1 as well as for z < 1.
C32_ZoomsAgree ==
    (Len(zoomed) >= 1 /\ Len(vzoomed) = 1 /\ zfactor.num # zfactor.den) =>
        /\ zoom_step_source(zframe, zfactor) = apply_zoom_source(zframe, zfactor)
        /\ vzoomed[1].h = zframe.h /\ vzoomed[1].w = zframe.w
        /\ zoomed[1].h = zframe.h /\ zoomed[1].w = zframe.w

-----------------------------------------------------------------------------
(* Claims about the predictions asked while frames are streamed *)

\* C31: within one run, once the window has received at least 30 feature
\* vectors, every call of Video.get_predictions returns a prediction and
\* never None, under any interleaving with a get_frame call of the
\* streaming thread.
C31_PredictionsOnceFull ==
    (reply.op = "app.get_predictions" /\ reply.arg >= WindowLen) =>
        (reply.success /\ reply.status = 200)

====
